---- MODULE Spec2Model ----
(***************************************************************************)
(* Model of the chapter acquisition pipeline of novel_crawler              *)
(* (src/novel_info.py): the retrying fetcher NovelInfo._request_with_retry,*)
(* the per-chapter unit of work NovelInfo.get_chapter_content and the      *)
(* bounded-concurrency downloader NovelInfo.download_chapters_parallel.    *)
(*                                                                         *)
(* Threads: thread 0 is the calling (main) thread, threads 1..max_workers  *)
(* are the worker threads of the ThreadPoolExecutor.  Every thread has one *)
(* frame of _request_with_retry (max_retries, attempt, last_exception).    *)
(* Time is counted in units of 0.5 s; slept[t] is the time thread t has    *)
(* spent in time.sleep during its call of _request_with_retry.             *)
(***************************************************************************)
EXTENDS Integers, Sequences, FiniteSets, TLC

\* ---------------------------------------------------------------- bounds
MaxChapters == 2      \* longest chapter list submitted to the downloader
MaxWorkers == 2       \* largest max_workers tried
MaxCap == 3           \* largest max_retries tried in a direct call
MaxCalls == 2         \* direct calls of _request_with_retry made in a row
MaxLen == 6           \* longest text given to _clean_content

\* ------------------------------------------------------ program constants
DelayLo == 1          \* delay_range[0] = 0.5 s
DelayHi == 2          \* delay_range[1] = 1 s
RetryDelay == 2       \* time.sleep(1) between attempts
DefaultMaxRetries == 3
DriverMaxWorkers == 3 \* main: download_chapters_parallel(..., max_workers=3)

\* The most worker threads any executor of the model can start
PoolSize == IF MaxWorkers > DriverMaxWorkers THEN MaxWorkers ELSE DriverMaxWorkers
Threads == 0..PoolSize
Positions == 1..MaxChapters
Urls == 0..MaxChapters          \* 0: self.url, i: the page of chapter i

\* The requests.RequestException of a failed attempt: raised by requests.get
\* (a timeout or a connection error) or by response.raise_for_status (non-2xx).
ErrorKinds == {"NetworkError", "HTTPStatus"}
\* What a 2xx page holds for the chapter parser.
Pages == {"ok", "no_title", "no_content"}

NoException == [kind |-> "None", attempt |-> 0]
NoContent == [title |-> 0, content |-> 0, error |-> "unset"]
NoRet == [kind |-> "none", page |-> "none", exc |-> NoException]
GenericException == [kind |-> "AllRetryAttemptsFailed", attempt |-> 0]
None == [isNone |-> TRUE, title |-> 0, content |-> 0]

VARIABLES
    chapters,        \* the list given to download_chapters_parallel (urls)
    max_workers,     \* its max_workers argument
    mainpc,          \* where the calling thread is
    idx,             \* how many futures the calling thread has submitted / collected
    fstate,          \* fstate[p]: state of the future of position p
    content,         \* content[p]: what get_chapter_content returned for p
    fresult,         \* fresult[p]: the value download_single returned for p
    queue,           \* the executor's FIFO work queue (positions)
    nthreads,        \* worker threads the executor has started
    results,         \* the list download_chapters_parallel builds
    task,            \* task[t]: position worker t is running, 0 when idle
    pc,              \* pc[t]: where thread t is inside _request_with_retry
    url,             \* url[t]: the url of the call in progress
    max_retries,     \* max_retries[t]: argument of the call in progress
    attempt,         \* attempt[t]: the loop variable
    last_exception,  \* last_exception[t]
    ret,             \* ret[t]: the page returned or the exception raised
    trace,           \* trace[t]: sleeps, GETs and log lines of the call in progress
    slept,           \* slept[t]: time thread t has slept in the call in progress (0.5 s units)
    responses,       \* responses[u]: 2xx responses received for url u
    calls,           \* direct calls of _request_with_retry made by thread 0
    \* main()
    dpc,             \* where main is
    info,            \* info = crawler.get_info()
    soup,            \* what get_info fetched and parsed, kept until the download starts
    input,           \* what the selection loop read in its last iteration
    start_idx,       \* start_idx
    end_idx,         \* end_idx
    sections,        \* the chapters handed to EpubGenerator
    filename,        \* filename
    printed,         \* the failure main has printed for the user
    \* _clean_content and the file name, taken by themselves
    raw,             \* a text given to _clean_content
    cleaned,         \* _clean_content(raw)
    recleaned,       \* _clean_content(cleaned)
    runs,            \* two runs of main that reached the file name
    names            \* the file names of the two runs

driverVars == <<dpc, info, soup, input, start_idx, end_idx, sections, filename, printed>>
pureVars == <<raw, cleaned, recleaned, runs, names>>
poolVars == <<chapters, max_workers, mainpc, idx, fstate, content, fresult, queue, nthreads,
              results, task, pc, url, max_retries, attempt, last_exception, ret,
              trace, slept, responses, calls>>
vars == <<poolVars, driverVars, pureVars>>

\* ---------------------------------------------------------------- helpers
Count(s, e) == Cardinality({i \in DOMAIN s : s[i] = e})

RECURSIVE SumOver(_, _)
SumOver(f, S) ==
    IF S = {} THEN 0
    ELSE LET x == CHOOSE y \in S : TRUE IN f[x] + SumOver(f, S \ {x})

MaxOver(f, S) == CHOOSE m \in {f[x] : x \in S} : \A x \in S : f[x] <= m

\* ------------------------------------------------ get_chapter_content
\* What get_chapter_content returns for the chapter at url u once its call of
\* _request_with_retry has ended with r: the parsed chapter when the page has
\* both elements; otherwise the value of the except clause, with empty title
\* and content (0) and an error naming the exception caught: the
\* RequestException the fetch raised, or the ValueError raised when select_one
\* found no title or no content element.
GetChapterContent(u, r) ==
    IF r.kind = "response" /\ r.page = "ok"
    THEN [title |-> u, content |-> u, error |-> "None"]
    ELSE [title |-> 0, content |-> 0,
          error |-> IF r.kind = "raised" THEN "RequestException" ELSE "ValueError"]

\* Faulty variant: a unit hands back an entry whatever the parse reported
DownloadSingleKeepsFailed(c) ==
    [isNone |-> FALSE, title |-> c.title, content |-> c.content]

\* download_single: the title and content when content['error'] is falsy,
\* None otherwise.
DownloadSingle(c) ==
    IF c.error = "None"
    THEN [isNone |-> FALSE, title |-> c.title, content |-> c.content]
    ELSE None

\* ------------------------------------------------ _request_with_retry
\* Faulty variant: the loop runs once more than max_retries says
LoopContinuesOnceMore(a, cap) == a <= cap

\* for attempt in range(max_retries): the loop runs while attempt < max_retries
LoopContinues(a, cap) == a < cap

\* Faulty variant: the handler never re-raises: it sleeps after the last failure too
IsLastAttemptNever(a, cap) == FALSE

\* Faulty variant: the handler gives up one attempt early
IsLastAttemptEarly(a, cap) == a = cap - 2

\* if attempt == max_retries - 1: raise last_exception
IsLastAttempt(a, cap) == a = cap - 1

\* Faulty variant: only the first exception is kept
SavedExceptionFirst(old, new) == IF old = NoException THEN new ELSE old

\* last_exception = e
SavedException(old, new) == new

\* The call was made directly by the calling thread: its outcome r (the
\* response returned or the exception raised) is there for the caller.
ReturnToCaller(t, r, le, tr, sl) ==
    /\ pc' = [pc EXCEPT ![t] = IF r.kind = "raised" THEN "raised" ELSE "returned"]
    /\ ret' = [ret EXCEPT ![t] = r]
    /\ last_exception' = [last_exception EXCEPT ![t] = le]
    /\ trace' = [trace EXCEPT ![t] = tr]
    /\ slept' = [slept EXCEPT ![t] = sl]
    /\ UNCHANGED <<fstate, content, fresult, task, url, attempt>>

\* The call was made by get_chapter_content for download_single in worker
\* thread t: parsing and cleaning (or the except clause), download_single's
\* return and the future's result follow without blocking, and the thread is
\* idle again, its frame gone.
FinishUnit(t, r) ==
    /\ content' = [content EXCEPT ![task[t]] = GetChapterContent(url[t], r)]
    /\ fresult' = [fresult EXCEPT ![task[t]] =
                      DownloadSingle(GetChapterContent(url[t], r))]
    /\ fstate' = [fstate EXCEPT ![task[t]] = "finished"]
    /\ task' = [task EXCEPT ![t] = 0]
    /\ pc' = [pc EXCEPT ![t] = "idle"]
    /\ ret' = [ret EXCEPT ![t] = NoRet]
    /\ url' = [url EXCEPT ![t] = 0]
    /\ attempt' = [attempt EXCEPT ![t] = 0]
    /\ last_exception' = [last_exception EXCEPT ![t] = NoException]
    /\ trace' = [trace EXCEPT ![t] = <<>>]
    /\ slept' = [slept EXCEPT ![t] = 0]

\* The call of thread t ends with r, its locals being le, its trace tr and the
\* time it slept sl.
EndCall(t, r, le, tr, sl) ==
    IF task[t] = 0 THEN ReturnToCaller(t, r, le, tr, sl) ELSE FinishUnit(t, r)

\* The call itself, made by thread t (for position p when t is a worker):
\* last_exception = None, then the loop.  With an empty range the statement
\* after the loop raises the generic exception at once.
CallRequest(t, p, u, cap) ==
    /\ max_retries' = [max_retries EXCEPT ![t] = cap]
    /\ IF LoopContinues(0, cap)
       THEN /\ pc' = [pc EXCEPT ![t] = "sleep"]
            /\ ret' = [ret EXCEPT ![t] = NoRet]
            /\ url' = [url EXCEPT ![t] = u]
            /\ attempt' = [attempt EXCEPT ![t] = 0]
            /\ last_exception' = [last_exception EXCEPT ![t] = NoException]
            /\ trace' = [trace EXCEPT ![t] = <<>>]
            /\ task' = [task EXCEPT ![t] = p]
            /\ fstate' = [q \in Positions |-> IF q = p THEN "running" ELSE fstate[q]]
            /\ UNCHANGED <<content, fresult>>
       ELSE /\ pc' = [pc EXCEPT ![t] = "raised"]
            /\ ret' = [ret EXCEPT ![t] =
                          [kind |-> "raised", page |-> "none", exc |-> GenericException]]
            /\ url' = [url EXCEPT ![t] = u]
            /\ attempt' = [attempt EXCEPT ![t] = 0]
            /\ last_exception' = [last_exception EXCEPT ![t] = NoException]
            /\ trace' = [trace EXCEPT ![t] = <<>>]
            /\ UNCHANGED <<task, fstate, content, fresult>>
    /\ slept' = [slept EXCEPT ![t] = 0]
    /\ UNCHANGED responses

\* Faulty variant: the delay is drawn from below the window
DelayWindowFromZero == 0..DelayHi

\* random.uniform(*self.delay_range): between 0.5 s and 1 s
DelayWindow == DelayLo..DelayHi

\* delay = random.uniform(*self.delay_range); time.sleep(delay)
PolitenessSleep(t) ==
    /\ pc[t] = "sleep"
    /\ \E delay \in DelayWindow :
          slept' = [slept EXCEPT ![t] = @ + delay]
    /\ trace' = [trace EXCEPT ![t] = Append(@, "psleep")]
    /\ pc' = [pc EXCEPT ![t] = "get"]
    /\ UNCHANGED <<chapters, max_workers, mainpc, idx, fstate, content, fresult,
                   queue, nthreads, results, task, url, max_retries, attempt,
                   last_exception, ret, responses, calls>>
    /\ UNCHANGED <<driverVars, pureVars>>

\* Faulty variant: a page the chapter parser cannot use counts as a failed attempt
GetOkRetryingParse(t) ==
    /\ pc[t] = "get"
    /\ responses' = [responses EXCEPT ![url[t]] = @ + 1]
    /\ \E page \in Pages :
          IF page = "ok" \/ task[t] = 0 \/ IsLastAttempt(attempt[t], max_retries[t])
          THEN EndCall(t, [kind |-> "response", page |-> page, exc |-> NoException],
                       last_exception[t], Append(trace[t], "get"), slept[t])
          ELSE /\ pc' = [pc EXCEPT ![t] = "retry_sleep"]
               /\ trace' = [trace EXCEPT ![t] = Append(@, "get")]
               /\ UNCHANGED <<ret, last_exception, fstate, content, fresult, task,
                              url, attempt, slept>>
    /\ UNCHANGED <<chapters, max_workers, mainpc, idx, queue, nthreads, results,
                   max_retries, calls>>
    /\ UNCHANGED <<driverVars, pureVars>>

\* requests.get succeeds and raise_for_status passes: return response
GetOk(t) ==
    /\ pc[t] = "get"
    /\ responses' = [responses EXCEPT ![url[t]] = @ + 1]
    /\ \E page \in Pages :
          EndCall(t, [kind |-> "response", page |-> page, exc |-> NoException],
                  last_exception[t], Append(trace[t], "get"), slept[t])
    /\ UNCHANGED <<chapters, max_workers, mainpc, idx, queue, nthreads, results,
                   max_retries, calls>>
    /\ UNCHANGED <<driverVars, pureVars>>

\* requests.get or raise_for_status raises a RequestException: the handler
\* saves it, prints the attempt, and on the last attempt re-raises it;
\* otherwise the retry delay is next.
GetFail(t) ==
    /\ pc[t] = "get"
    /\ \E k \in ErrorKinds :
        LET e == [kind |-> k, attempt |-> attempt[t] + 1]
            saved == SavedException(last_exception[t], e)
            tr == trace[t] \o <<"get", "log">>
        IN IF IsLastAttempt(attempt[t], max_retries[t])
           THEN EndCall(t, [kind |-> "raised", page |-> "none", exc |-> saved], saved, tr,
                        slept[t])
           ELSE /\ pc' = [pc EXCEPT ![t] = "retry_sleep"]
                /\ last_exception' = [last_exception EXCEPT ![t] = saved]
                /\ trace' = [trace EXCEPT ![t] = tr]
                /\ UNCHANGED <<ret, fstate, content, fresult, task, url, attempt, slept>>
    /\ UNCHANGED <<chapters, max_workers, mainpc, idx, queue, nthreads, results,
                   max_retries, responses, calls>>
    /\ UNCHANGED <<driverVars, pureVars>>

\* time.sleep(1), then the next iteration of the loop; when the range is
\* exhausted the statement after the loop raises the generic exception.
RetrySleep(t) ==
    /\ pc[t] = "retry_sleep"
    /\ IF LoopContinues(attempt[t] + 1, max_retries[t])
       THEN /\ pc' = [pc EXCEPT ![t] = "sleep"]
            /\ attempt' = [attempt EXCEPT ![t] = @ + 1]
            /\ trace' = [trace EXCEPT ![t] = Append(@, "rsleep")]
            /\ slept' = [slept EXCEPT ![t] = @ + RetryDelay]
            /\ UNCHANGED <<ret, last_exception, fstate, content, fresult, task, url>>
       ELSE EndCall(t, [kind |-> "raised", page |-> "none", exc |-> GenericException],
                    last_exception[t], Append(trace[t], "rsleep"), slept[t] + RetryDelay)
    /\ UNCHANGED <<chapters, max_workers, mainpc, idx, queue, nthreads, results,
                   max_retries, responses, calls>>
    /\ UNCHANGED <<driverVars, pureVars>>

RequestStep(t) ==
    \/ PolitenessSleep(t)
    \/ GetOk(t)
    \/ GetFail(t)
    \/ RetrySleep(t)

\* ------------------------------------------------ ThreadPoolExecutor
Workers == 1..PoolSize

\* Faulty variant: the executor starts all its threads when it is constructed
ThreadsAtConstructionEager(maxw) == maxw

\* ThreadPoolExecutor(max_workers=max_workers): the executor starts no thread
\* when it is constructed, only when work is submitted
ThreadsAtConstruction(maxw) == 0

\* Faulty variant: submit starts a thread for every work item it is given
CanSpawnPerItem(n, maxw) == n < MaxWorkers

\* submit starts a new worker thread while fewer than max_workers exist
CanSpawn(n, maxw) == n < maxw

\* executor.submit(download_single, chapter), for the next chapter of the list
Submit ==
    /\ mainpc = "submit"
    /\ idx < Len(chapters)
    /\ idx' = idx + 1
    /\ fstate' = [fstate EXCEPT ![idx + 1] = "pending"]
    /\ queue' = Append(queue, idx + 1)
    /\ nthreads' = IF CanSpawn(nthreads, max_workers) THEN nthreads + 1 ELSE nthreads
    /\ UNCHANGED <<chapters, max_workers, mainpc, content, fresult, results, task, pc, url,
                   max_retries, attempt, last_exception, ret, trace, slept,
                   responses, calls>>
    /\ UNCHANGED <<driverVars, pureVars>>

\* the list comprehension is done: the calling thread turns to the futures
Submitted ==
    /\ mainpc = "submit"
    /\ idx = Len(chapters)
    /\ mainpc' = "collect"
    /\ idx' = 0
    /\ UNCHANGED <<chapters, max_workers, fstate, content, fresult, queue, nthreads, results,
                   task, pc, url, max_retries, attempt, last_exception, ret, trace,
                   slept, responses, calls>>
    /\ UNCHANGED <<driverVars, pureVars>>

\* Worker thread w is started and waits on the work queue.
Idle(w) == w <= nthreads /\ task[w] = 0

\* Faulty variant: the work item taken stays in the queue, so that another
\* worker thread takes it as well
StartUnitKeepingItem(w) ==
    /\ Idle(w)
    /\ \A v \in 1..(w - 1) : ~Idle(v)
    /\ queue # <<>>
    /\ queue' = queue
    /\ CallRequest(w, Head(queue), chapters[Head(queue)], DefaultMaxRetries)
    /\ UNCHANGED <<chapters, max_workers, mainpc, idx, nthreads, results, calls>>
    /\ UNCHANGED <<driverVars, pureVars>>

\* An idle worker thread takes the oldest work item and runs download_single
\* up to the first sleep of _request_with_retry(chapter_url).  Which of the
\* idle threads gets the item is up to the queue; idle threads are all alike
\* (an idle thread has no frame), so the lowest-numbered one stands for them.
StartUnit(w) ==
    /\ Idle(w)
    /\ \A v \in 1..(w - 1) : ~Idle(v)
    /\ queue # <<>>
    /\ queue' = Tail(queue)
    /\ CallRequest(w, Head(queue), chapters[Head(queue)], DefaultMaxRetries)
    /\ UNCHANGED <<chapters, max_workers, mainpc, idx, nthreads, results, calls>>
    /\ UNCHANGED <<driverVars, pureVars>>

\* ------------------------------------------ download_chapters_parallel
\* Faulty variant: the futures are taken from the end of the list
NextFutureReversed == Len(chapters) - idx

\* for future in tqdm(futures): the futures are taken in list order
NextFuture == idx + 1

\* Faulty variant: the result is read without waiting for the future
ResultReadyNoWait(p) == TRUE

\* future.result() blocks until the future has finished
ResultReady(p) == fstate[p] = "finished"

\* Faulty variant: every result is kept, None included
TruthyAlways(r) == TRUE

\* if result: a dict with two keys is truthy, None is not
Truthy(r) == ~r.isNone

Collect ==
    /\ mainpc = "collect"
    /\ idx < Len(chapters)
    /\ LET p == NextFuture
       IN /\ ResultReady(p)
          /\ results' = IF Truthy(fresult[p])
                        THEN Append(results, [title |-> fresult[p].title,
                                              content |-> fresult[p].content])
                        ELSE results
    /\ idx' = idx + 1
    /\ UNCHANGED <<chapters, max_workers, mainpc, fstate, content, fresult, queue, nthreads,
                   task, pc, url, max_retries, attempt, last_exception, ret, trace,
                   slept, responses, calls>>
    /\ UNCHANGED <<driverVars, pureVars>>

\* Leaving the with block (shutdown(wait=True) joins the worker threads, which
\* exit once the queue is empty and their work item is done), then return results.
Return ==
    /\ mainpc = "collect"
    /\ idx = Len(chapters)
    /\ queue = <<>>
    /\ \A w \in Workers : task[w] = 0
    /\ mainpc' = "returned"
    /\ UNCHANGED <<chapters, max_workers, idx, fstate, content, fresult, queue, nthreads,
                   results, task, pc, url, max_retries, attempt, last_exception, ret,
                   trace, slept, responses, calls>>
    /\ UNCHANGED <<driverVars, pureVars>>

\* ------------------------------------------------------------------ str
\* A str is a sequence of characters.  The module's strings are ASCII, so a
\* Chinese character is written as its pinyin syllable: "di" for 第, "zhang"
\* for 章, "dao" for 到, and so on.
WhitespaceChars == {" ", "\n"}

RECURSIVE LStrip(_)
LStrip(s) ==
    IF s # <<>> /\ Head(s) \in WhitespaceChars THEN LStrip(Tail(s)) ELSE s

RECURSIVE RStrip(_)
RStrip(s) ==
    IF s # <<>> /\ s[Len(s)] \in WhitespaceChars
    THEN RStrip(SubSeq(s, 1, Len(s) - 1))
    ELSE s

\* s.strip()
Strip(s) == RStrip(LStrip(s))

\* s.replace(c, '') for a single character c
Remove(s, c) == SelectSeq(s, LAMBDA x : x # c)

\* kw in line
Contains(line, kw) ==
    \E i \in 1..(Len(line) - Len(kw) + 1) : SubSeq(line, i, i + Len(kw) - 1) = kw

Digits == <<"0", "1", "2", "3", "4", "5", "6", "7", "8", "9">>

\* f"{n}" for an int n >= 0: its decimal digits
RECURSIVE Str(_)
Str(n) ==
    IF n < 10 THEN <<Digits[n + 1]>> ELSE Str(n \div 10) \o <<Digits[(n % 10) + 1]>>

DigitValue(c) == CHOOSE d \in 0..9 : Digits[d + 1] = c
IsDigit(c) == \E d \in 0..9 : Digits[d + 1] = c

RECURSIVE DigitsValue(_)
DigitsValue(s) ==
    IF s = <<>> THEN 0
    ELSE 10 * DigitsValue(SubSeq(s, 1, Len(s) - 1)) + DigitValue(s[Len(s)])

\* int(s) raises ValueError unless s is an optional sign and decimal digits
\* (surrounding whitespace is allowed)
IsInt(s) ==
    LET t == Strip(s)
        d == IF t # <<>> /\ Head(t) \in {"-", "+"} THEN Tail(t) ELSE t
    IN d # <<>> /\ \A i \in 1..Len(d) : IsDigit(d[i])

\* int(s)
ParseInt(s) ==
    LET t == Strip(s)
    IN IF Head(t) = "-" THEN 0 - DigitsValue(Tail(t))
       ELSE IF Head(t) = "+" THEN DigitsValue(Tail(t))
       ELSE DigitsValue(t)

\* ------------------------------------------------------------- get_info
LeftMark == "<<"       \* the opening book-title mark of the site's titles
RightMark == ">>"      \* the closing book-title mark
StatusUnknown == <<"wei", "zhi">>           \* status = "unknown"
StatusComplete == <<"yi", "wan", "jie">>    \* the status main compares with
StatusOngoing == <<"lian", "zai", "zhong">>

\* What soup.select_one found: no element (None), or an element and its text.
NotFound == [found |-> FALSE, text |-> <<>>]
Elem(t) == [found |-> TRUE, text |-> t]

\* The catalog pages a 2xx response can hold: the title element, the author
\* element, how many chapter links the list has, the status cell.
TitleElems == {NotFound, Elem(<<"T">>), Elem(<<" ", LeftMark, "T", RightMark>>),
               Elem(<<LeftMark, RightMark>>)}
AuthorElems == {NotFound, Elem(<<"A", " ">>)}
StatusElems == {NotFound, Elem(StatusComplete), Elem(<<" ">> \o StatusOngoing)}
CatalogPages ==
    [title : TitleElems, author : AuthorElems, links : 0..MaxChapters, status : StatusElems]
NoPage == [title |-> NotFound, author |-> NotFound, links |-> 0, status |-> NotFound]

\* chapter.text.strip() of the i-th chapter link
ChapterTitle(i) == <<"c">> \o Str(i)

\* The dict of the except clause: an 'error' entry, everything else empty.
InfoFailure(cause) ==
    [has_error |-> TRUE, error |-> cause, title |-> <<>>, author |-> <<>>,
     status |-> <<>>, last_chapter |-> <<>>, total_chapters |-> 0, chapters |-> <<>>]

\* The dict of the return statement of the try block: no 'error' key.
InfoOf(page) ==
    [has_error |-> FALSE, error |-> "",
     title |-> Remove(Remove(Strip(page.title.text), LeftMark), RightMark),
     author |-> Strip(page.author.text),
     status |-> IF ~page.status.found THEN StatusUnknown ELSE Strip(page.status.text),
     last_chapter |-> ChapterTitle(page.links),
     total_chapters |-> page.links,
     chapters |-> [i \in 1..page.links |-> i]]

\* What the try block of get_info ends with once the fetch has ended with r
\* and the page parsed is page: "return", or the exception raised.
TryOutcome(r, page) ==
    IF r.kind = "raised" THEN "RequestException"
    ELSE IF ~page.title.found THEN "ValueError: no title"
    ELSE IF ~page.author.found THEN "ValueError: no author"
    ELSE IF page.links = 0 THEN "ValueError: no chapter list"
    ELSE "return"

\* Faulty variant: the handler catches the fetcher's exceptions only
CaughtRequestOnly(exc) == exc = "RequestException"

\* except Exception: every exception the try block raises is caught
Caught(exc) == TRUE

NoInfo == InfoFailure("unset")
NoInput == [choice |-> "", nums |-> <<>>]
NoSoup == [fetched |-> FALSE, page |-> NoPage]
NoRun == [title |-> <<>>, status |-> <<>>, start_idx |-> 0, end_idx |-> 0,
          total_chapters |-> 0, last_chapter |-> <<>>]

\* main is not running
DriverOff ==
    /\ dpc = "off"
    /\ info = NoInfo
    /\ soup = NoSoup
    /\ input = NoInput
    /\ start_idx = 0
    /\ end_idx = 0
    /\ sections = <<>>
    /\ filename = <<>>
    /\ printed = ""

\* no text is being cleaned and no file name derived
PureOff ==
    /\ raw = <<>>
    /\ cleaned = <<"unset">>
    /\ recleaned = <<"unset">>
    /\ runs = <<NoRun, NoRun>>
    /\ names = <<>>

\* ------------------------------------------------------------------ Init
FrameInit ==
    /\ pc = [t \in Threads |-> "idle"]
    /\ url = [t \in Threads |-> 0]
    /\ max_retries = [t \in Threads |-> DefaultMaxRetries]
    /\ attempt = [t \in Threads |-> 0]
    /\ last_exception = [t \in Threads |-> NoException]
    /\ ret = [t \in Threads |-> NoRet]
    /\ trace = [t \in Threads |-> <<>>]
    /\ slept = [t \in Threads |-> 0]
    /\ responses = [u \in Urls |-> 0]
    /\ calls = 0

\* No call of download_chapters_parallel has left anything behind.
PoolIdle ==
    /\ idx = 0
    /\ fstate = [p \in Positions |-> "none"]
    /\ content = [p \in Positions |-> NoContent]
    /\ fresult = [p \in Positions |-> None]
    /\ queue = <<>>
    /\ results = <<>>
    /\ task = [t \in Threads |-> 0]

\* download_chapters_parallel has been entered: results = [], the executor exists
PoolInit ==
    /\ mainpc = "submit"
    /\ PoolIdle

Init ==
    /\ FrameInit
    /\ PoolInit
    /\ \E n \in 0..MaxChapters : chapters = [i \in 1..n |-> i]
    /\ max_workers \in 1..MaxWorkers
    /\ nthreads = ThreadsAtConstruction(max_workers)
    /\ DriverOff
    /\ PureOff

WorkerStep(w) ==
    \/ StartUnit(w)
    \/ RequestStep(w)

MainStep ==
    \/ Submit
    \/ Submitted
    \/ Collect
    \/ Return

Next ==
    \/ MainStep
    \/ \E w \in Workers : WorkerStep(w)

Spec == Init /\ [][Next]_vars

\* The calling thread and every worker thread get the processor again and
\* again (the interpreter switches threads), and every sleep and every GET
\* (timeout=5) ends.
FairSpec ==
    /\ Spec
    /\ WF_vars(MainStep)
    /\ \A w \in Workers : WF_vars(WorkerStep(w))

\* ------------------------------------------- direct calls (RetrySpec)
\* crawler._request_with_retry(url, max_retries) called from the calling
\* thread, one call after the other.
DirectCall ==
    /\ pc[0] \in {"idle", "returned", "raised"}
    /\ calls < MaxCalls
    /\ calls' = calls + 1
    /\ \E cap \in 0..MaxCap : CallRequest(0, 0, 0, cap)
    /\ UNCHANGED <<chapters, max_workers, mainpc, idx, queue, nthreads, results>>
    /\ UNCHANGED <<driverVars, pureVars>>

RetryInit ==
    /\ FrameInit
    /\ PoolInit
    /\ chapters = <<>>
    /\ max_workers = 1
    /\ nthreads = 0
    /\ DriverOff
    /\ PureOff

RetryNext ==
    \/ DirectCall
    \/ RequestStep(0)

RetrySpec == RetryInit /\ [][RetryNext]_vars

\* ------------------------------------------------------ main (DriverSpec)
\* crawler = NovelInfo(url); info = crawler.get_info(): get_info begins with
\* its call of _request_with_retry(self.url).
CallGetInfo ==
    /\ dpc = "start"
    /\ dpc' = "get_info"
    /\ CallRequest(0, 0, 0, DefaultMaxRetries)
    /\ UNCHANGED <<chapters, max_workers, mainpc, idx, queue, nthreads, results, calls>>
    /\ UNCHANGED <<info, soup, input, start_idx, end_idx, sections, filename, printed>>
    /\ UNCHANGED pureVars

\* Faulty variant: main goes on whatever get_info returned
CatalogOkAlways(i) == TRUE

\* if 'error' not in info
CatalogOk(i) == ~i.has_error

\* The fetch of get_info has ended: the rest of its try block, or its except
\* clause, then main's test of the result; with a failure main prints
\* info['error'] and ends.
GetInfoReturn ==
    /\ dpc = "get_info"
    /\ pc[0] \in {"returned", "raised"}
    /\ \E page \in (IF ret[0].kind = "response" THEN CatalogPages ELSE {NoPage}) :
         LET out == TryOutcome(ret[0], page)
             result == IF out = "return" THEN InfoOf(page) ELSE InfoFailure(out)
         IN /\ soup' = [fetched |-> ret[0].kind = "response", page |-> page]
            /\ IF out # "return" /\ ~Caught(out)
               THEN /\ dpc' = "crashed"
                    /\ UNCHANGED <<info, printed>>
               ELSE /\ info' = result
                    /\ IF CatalogOk(result)
                       THEN dpc' = "select" /\ printed' = printed
                       ELSE dpc' = "no_catalog" /\ printed' = result.error
    /\ pc' = [pc EXCEPT ![0] = "idle"]
    /\ ret' = [ret EXCEPT ![0] = NoRet]
    /\ url' = [url EXCEPT ![0] = 0]
    /\ attempt' = [attempt EXCEPT ![0] = 0]
    /\ last_exception' = [last_exception EXCEPT ![0] = NoException]
    /\ trace' = [trace EXCEPT ![0] = <<>>]
    /\ slept' = [slept EXCEPT ![0] = 0]
    /\ UNCHANGED <<chapters, max_workers, mainpc, idx, fstate, content, fresult, queue,
                   nthreads, results, task, max_retries, responses, calls>>
    /\ UNCHANGED <<input, start_idx, end_idx, sections, filename>>
    /\ UNCHANGED pureVars

\* What the user can type at a prompt for a number.
Typed == {Str(n) : n \in 0..(MaxChapters + 1)} \cup {<<"-", "1">>, <<"x">>, <<>>}
Choices == {"1", "2", "3", "4"}

\* What one iteration of the selection loop reads after the choice c: nothing,
\* one number (choice 3, or choice 2 when the first int() fails), or two.
Reads(c) ==
    IF c = "2" THEN {<<a>> : a \in {x \in Typed : ~IsInt(x)}}
                    \cup {<<a, b>> : a \in {x \in Typed : IsInt(x)}, b \in Typed}
    ELSE IF c = "3" THEN {<<a>> : a \in Typed}
    ELSE {<<>>}

\* Faulty variant: chapter 0 is accepted as a start
RangeValidFromZero(start, end, total) == 0 <= start /\ start <= end /\ end <= total

\* if 1 <= start <= end <= info['total_chapters']
RangeValid(start, end, total) == 1 <= start /\ start <= end /\ end <= total

\* if 1 <= num <= info['total_chapters']
CountValid(num, total) == 1 <= num /\ num <= total

Rejected == [accepted |-> FALSE, start_idx |-> 0, end_idx |-> 0]
Accepted(s, e) == [accepted |-> TRUE, start_idx |-> s, end_idx |-> e]

\* One iteration of the while loop, for the choice c and the numbers read: it
\* breaks with start_idx and end_idx, or prints a message and goes round again
\* (the ValueError of int() is caught inside the loop).
Iteration(c, nums, i) ==
    IF c = "1" THEN Accepted(0, Len(i.chapters))
    ELSE IF c = "2"
    THEN IF Len(nums) < 2 \/ ~IsInt(nums[1]) \/ ~IsInt(nums[2]) THEN Rejected
         ELSE IF RangeValid(ParseInt(nums[1]), ParseInt(nums[2]), i.total_chapters)
              THEN Accepted(ParseInt(nums[1]) - 1, ParseInt(nums[2]))
              ELSE Rejected
    ELSE IF c = "3"
    THEN IF ~IsInt(nums[1]) THEN Rejected
         ELSE IF CountValid(ParseInt(nums[1]), i.total_chapters)
              THEN Accepted(i.total_chapters - ParseInt(nums[1]), i.total_chapters)
              ELSE Rejected
    ELSE Rejected

Select ==
    /\ dpc = "select"
    /\ \E c \in Choices : \E nums \in Reads(c) :
         LET it == Iteration(c, nums, info)
         IN /\ input' = [choice |-> c, nums |-> nums]
            /\ IF it.accepted
               THEN /\ start_idx' = it.start_idx
                    /\ end_idx' = it.end_idx
                    /\ dpc' = "selected"
               ELSE UNCHANGED <<start_idx, end_idx, dpc>>
    /\ UNCHANGED <<info, soup, sections, filename, printed>>
    /\ UNCHANGED <<poolVars, pureVars>>

\* Faulty variant: the slice stops one element before its end
SliceShort(s, a, b) == SubSeq(s, a + 1, (IF b < Len(s) THEN b ELSE Len(s)) - 1)

\* s[a:b] for 0 <= a
Slice(s, a, b) == SubSeq(s, a + 1, IF b < Len(s) THEN b ELSE Len(s))

\* selected_chapters = info['chapters'][start_idx:end_idx], then the call
\* crawler.download_chapters_parallel(selected_chapters, max_workers=3) up to
\* the construction of its executor.
StartDownload ==
    /\ dpc = "selected"
    /\ dpc' = "download"
    /\ chapters' = Slice(info.chapters, start_idx, end_idx)
    /\ max_workers' = DriverMaxWorkers
    /\ nthreads' = ThreadsAtConstruction(DriverMaxWorkers)
    /\ mainpc' = "submit"
    /\ soup' = NoSoup
    /\ input' = NoInput
    /\ UNCHANGED <<idx, fstate, content, fresult, queue, results, task, pc, url,
                   max_retries, attempt, last_exception, ret, trace, slept, responses,
                   calls>>
    /\ UNCHANGED <<info, start_idx, end_idx, sections, filename, printed>>
    /\ UNCHANGED pureVars

\* Faulty variant: any start together with the last chapter counts as the whole catalog
IsWholeCatalogToEnd(s, e, total) == e = total

\* Faulty variant: the first chapter together with any end counts as the whole catalog
IsWholeCatalogFromStart(s, e, total) == s = 0

\* if start_idx == 0 and end_idx == info['total_chapters']
IsWholeCatalog(s, e, total) == s = 0 /\ e = total

Epub == <<".", "e", "p", "u", "b">>

\* The file name main derives from the title, the status, the last chapter's
\* title, the total and the two indices.
Filename(title, status, s, e, total, last) ==
    IF IsWholeCatalog(s, e, total)
    THEN IF status # StatusComplete
         THEN title \o <<"_", "di", "1", "zhang", "dao", "di">> \o Str(total)
                    \o <<"zhang", "_", "zui", "xin">> \o last \o Epub
         ELSE title \o <<"_", "quan", "ben">> \o Epub
    ELSE title \o <<"_", "di">> \o Str(s + 1) \o <<"zhang", "dao", "di">> \o Str(e)
               \o <<"zhang">> \o Epub

\* if chapters: a list is truthy when it is not empty
BatchTruthy(b) == b # <<>>

\* download_chapters_parallel has returned: with chapters, main builds the
\* EpubGenerator, derives the file name and calls generate; with none, main
\* ends without a word.
Finish ==
    /\ dpc = "download"
    /\ mainpc = "returned"
    /\ IF BatchTruthy(results)
       THEN /\ sections' = results
            /\ filename' = Filename(info.title, info.status, start_idx, end_idx,
                                    info.total_chapters, info.last_chapter)
            /\ dpc' = "assembled"
       ELSE /\ dpc' = "ended"
            /\ UNCHANGED <<sections, filename>>
    /\ UNCHANGED <<info, soup, input, start_idx, end_idx, printed>>
    /\ UNCHANGED <<poolVars, pureVars>>

DriverInit ==
    /\ FrameInit
    /\ PoolIdle
    /\ mainpc = "idle"
    /\ chapters = <<>>
    /\ max_workers = DriverMaxWorkers
    /\ nthreads = 0
    /\ dpc = "start"
    /\ info = NoInfo
    /\ soup = NoSoup
    /\ input = NoInput
    /\ start_idx = 0
    /\ end_idx = 0
    /\ sections = <<>>
    /\ filename = <<>>
    /\ printed = ""
    /\ PureOff

DriverNext ==
    \/ CallGetInfo
    \/ RequestStep(0)
    \/ GetInfoReturn
    \/ Select
    \/ StartDownload
    \/ MainStep
    \/ \E w \in Workers : WorkerStep(w)
    \/ Finish

DriverSpec == DriverInit /\ [][DriverNext]_vars

\* ------------------------------------------ _clean_content (CleanSpec)
\* The characters of the texts tried: a letter, a blank, a newline and the
\* character of the separator marker.
TextChars == {"a", " ", "\n", "-"}
Texts == UNION {[1..n -> TextChars] : n \in 0..MaxLen}

\* ad_keywords, in pinyin where Chinese: "ben zhang wan", "shou ji yong hu
\* qing fang wen", 'czbooks.net', '////', '----' and three full-width
\* asterisks.
ad_keywords ==
    << <<"ben", "zhang", "wan">>,
       <<"shou", "ji", "yong", "hu", "qing", "fang", "wen">>,
       <<"c", "z", "b", "o", "o", "k", "s", ".", "n", "e", "t">>,
       <<"/", "/", "/", "/">>,
       <<"-", "-", "-", "-">>,
       <<"*", "*", "*">> >>

\* s.split(sep) for a separator of one character
RECURSIVE Split(_, _)
Split(s, sep) ==
    IF \A i \in 1..Len(s) : s[i] # sep THEN <<s>>
    ELSE LET i == CHOOSE k \in 1..Len(s) : s[k] = sep /\ \A j \in 1..(k - 1) : s[j] # sep
         IN <<SubSeq(s, 1, i - 1)>> \o Split(SubSeq(s, i + 1, Len(s)), sep)

\* sep.join(lines)
RECURSIVE Join(_, _)
Join(lines, sep) ==
    IF lines = <<>> THEN <<>>
    ELSE IF Len(lines) = 1 THEN lines[1]
    ELSE lines[1] \o <<sep>> \o Join(Tail(lines), sep)

\* Faulty variant: the empty lines are dropped before the lines are stripped
StrippedLinesDroppedFirst(text) ==
    LET parts == SelectSeq(Split(text, "\n"), LAMBDA line : line # <<>>)
    IN [i \in 1..Len(parts) |-> Strip(parts[i])]

\* lines = [line.strip() for line in content.split('\n')]
\* lines = [line for line in lines if line]
StrippedLines(text) ==
    LET parts == Split(text, "\n")
        lines == [i \in 1..Len(parts) |-> Strip(parts[i])]
    IN SelectSeq(lines, LAMBDA line : line # <<>>)

\* Faulty variant: only a line that is a keyword and nothing else is an ad
IsAdWholeLine(line) == \E k \in 1..Len(ad_keywords) : line = ad_keywords[k]

\* any(keyword in line for keyword in ad_keywords)
IsAd(line) == \E k \in 1..Len(ad_keywords) : Contains(line, ad_keywords[k])

\* _clean_content(text)
CleanContent(text) ==
    LET cleaned_lines == SelectSeq(StrippedLines(text), LAMBDA line : ~IsAd(line))
    IN Join(cleaned_lines, "\n")

Unset == <<"unset">>

CleanInit ==
    /\ FrameInit
    /\ PoolIdle
    /\ mainpc = "idle"
    /\ chapters = <<>>
    /\ max_workers = DriverMaxWorkers
    /\ nthreads = 0
    /\ DriverOff
    /\ raw \in Texts
    /\ cleaned = Unset
    /\ recleaned = Unset
    /\ runs = <<NoRun, NoRun>>
    /\ names = <<>>

\* cleaned = _clean_content(raw)
Clean ==
    /\ cleaned = Unset
    /\ cleaned' = CleanContent(raw)
    /\ UNCHANGED <<raw, recleaned, runs, names>>
    /\ UNCHANGED <<poolVars, driverVars>>

\* recleaned = _clean_content(cleaned)
CleanAgain ==
    /\ cleaned # Unset
    /\ recleaned = Unset
    /\ recleaned' = CleanContent(cleaned)
    /\ UNCHANGED <<raw, cleaned, runs, names>>
    /\ UNCHANGED <<poolVars, driverVars>>

CleanNext ==
    \/ Clean
    \/ CleanAgain

CleanSpec == CleanInit /\ [][CleanNext]_vars

\* -------------------------------------------- the file name (NameSpec)
\* What two runs of main can hold when they reach the file name: a title, a
\* status, an accepted selection of a catalog, the last chapter's title.
RunTitles == {<<"T">>, <<"U">>}
RunStatuses == {StatusComplete, StatusOngoing, StatusUnknown}
RunInputs ==
    {r \in [title : RunTitles, status : RunStatuses, start_idx : 0..MaxChapters,
            end_idx : 1..MaxChapters, total_chapters : 1..MaxChapters,
            last_chapter : {<<"c">>, <<"d">>}] :
        r.start_idx < r.end_idx /\ r.end_idx <= r.total_chapters}

NameInit ==
    /\ FrameInit
    /\ PoolIdle
    /\ mainpc = "idle"
    /\ chapters = <<>>
    /\ max_workers = DriverMaxWorkers
    /\ nthreads = 0
    /\ DriverOff
    /\ raw = <<>>
    /\ cleaned = Unset
    /\ recleaned = Unset
    /\ runs \in RunInputs \X RunInputs
    /\ names = <<>>

NameOf(r) ==
    Filename(r.title, r.status, r.start_idx, r.end_idx, r.total_chapters, r.last_chapter)

\* Each of the two runs derives its file name.
DeriveNames ==
    /\ names = <<>>
    /\ names' = <<NameOf(runs[1]), NameOf(runs[2])>>
    /\ UNCHANGED <<raw, cleaned, recleaned, runs>>
    /\ UNCHANGED <<poolVars, driverVars>>

NameNext == DeriveNames

NameSpec == NameInit /\ [][NameNext]_vars

\* ================================================================ claims
InFlight == {w \in Workers : task[w] # 0}
Succeeded == {p \in 1..Len(chapters) : content[p].error = "None"}
Failed == {p \in 1..Len(chapters) : content[p].error \in {"ValueError", "RequestException"}}
\* the position in the input list of the chapter an entry of the batch holds
PositionOf(entry) == CHOOSE p \in 1..Len(chapters) : chapters[p] = entry.title

\* C1: at every moment of download_chapters_parallel, whatever the order in
\* which the units complete, the batch lists chapters in strictly increasing
\* order of their position in the input list: nothing is reordered and no
\* position appears twice.
C1_BatchInSubmissionOrder ==
    /\ \A i \in 1..Len(results) : \E p \in 1..Len(chapters) : chapters[p] = results[i].title
    /\ \A i, j \in 1..Len(results) :
          i < j => PositionOf(results[i]) < PositionOf(results[j])

\* C1 witness: two workers ran concurrently, the call has returned and the
\* batch holds every chapter of the list.
C1_Witness ==
    /\ mainpc = "returned"
    /\ nthreads >= 2
    /\ Len(chapters) = MaxChapters
    /\ Len(results) = MaxChapters

\* C2: once download_chapters_parallel has returned, the batch has exactly one
\* entry (title and content of the chapter) for every unit that succeeded and
\* none for a unit whose fetch or parse failed; every unit ran to its end
\* whatever happened to the others, and when every unit failed the batch is
\* empty.
C2_FailureExcludesOnlyItself ==
    mainpc = "returned" =>
        /\ \A p \in 1..Len(chapters) : p \in Succeeded \/ p \in Failed
        /\ Len(results) = Cardinality(Succeeded)
        /\ \A p \in Succeeded :
              \E i \in 1..Len(results) :
                  results[i] = [title |-> chapters[p], content |-> chapters[p]]
        /\ \A i \in 1..Len(results) : PositionOf(results[i]) \in Succeeded
        /\ (Succeeded = {} => results = <<>>)

\* C2 witness: the call has returned, one unit failed, a unit submitted after
\* it succeeded and is in the batch.
C2_Witness ==
    /\ mainpc = "returned"
    /\ \E p, q \in 1..Len(chapters) : p < q /\ p \in Failed /\ q \in Succeeded
    /\ Len(results) = Len(chapters) - 1

\* C3: in every reachable state the units of work in flight (started and not
\* finished) are at most max_workers.
C3_InFlightBounded ==
    /\ Cardinality(InFlight) <= max_workers
    /\ Cardinality({p \in Positions : fstate[p] = "running"}) <= max_workers
    /\ nthreads <= max_workers

\* C3 witness: max_workers units are in flight and a submitted unit waits for
\* a free worker.
C3_Witness ==
    /\ Cardinality(InFlight) = max_workers
    /\ queue # <<>>

\* C4: under fair scheduling, and every attempt ending, the call eventually
\* returns; and whenever it has returned every submitted unit has completed
\* (none pending in the queue, none running) and every success is in the batch.
C4_ReturnsWithEveryUnitDone ==
    /\ <>(mainpc = "returned")
    /\ [](mainpc = "returned" =>
            /\ queue = <<>>
            /\ InFlight = {}
            /\ \A p \in 1..Len(chapters) : fstate[p] = "finished"
            /\ \A p \in Succeeded :
                  \E i \in 1..Len(results) : results[i].title = chapters[p])

\* C4 witness: the call has returned from a full list with fewer workers than
\* chapters, after a unit that used all its attempts.
C4_Witness ==
    /\ mainpc = "returned"
    /\ Len(chapters) = MaxChapters
    /\ max_workers < Len(chapters)
    /\ \E p \in Failed : content[p].error = "RequestException"
    /\ Succeeded # {}

\* C5: a call of _request_with_retry(url, max_retries) issues at most
\* max_retries GETs; every GET but a successful one is followed by its log
\* line; when the call has returned, its last GET is the only one that
\* succeeded and nothing follows it; when it has raised after attempts, exactly
\* max_retries GETs were issued and all of them failed.
C5_AtMostCapRequests ==
    \A t \in Threads :
        LET tr == trace[t]
            g == Count(tr, "get")
            l == Count(tr, "log")
        IN /\ g <= max_retries[t]
           /\ \A i \in 1..(Len(tr) - 1) : tr[i] = "get" => tr[i + 1] = "log"
           /\ pc[t] = "returned" =>
                 /\ ret[t].kind = "response"
                 /\ tr[Len(tr)] = "get"
                 /\ l = g - 1
           /\ pc[t] = "raised" =>
                 /\ ret[t].kind = "raised"
                 /\ g = max_retries[t]
                 /\ l = g

\* C5 witness: a call with the largest cap returned on its last attempt, after
\* max_retries - 1 failures.
C5_Witness ==
    /\ pc[0] = "returned"
    /\ max_retries[0] = MaxCap
    /\ Count(trace[0], "get") = MaxCap

\* C6: when _request_with_retry gives up with a cap of at least 1, the
\* exception it raises is the one caught on the last attempt (attempt number
\* max_retries): not one of an earlier attempt, not the generic one.
C6_RaisesLastError ==
    \A t \in Threads :
        (pc[t] = "raised" /\ max_retries[t] >= 1) =>
            /\ ret[t].exc.kind \in ErrorKinds
            /\ ret[t].exc.attempt = max_retries[t]
            /\ ret[t].exc = last_exception[t]

\* C6 witness: a call with a cap of at least 2 has raised after all its
\* attempts failed.
C6_Witness ==
    /\ pc[0] = "raised"
    /\ max_retries[0] >= 2
    /\ Count(trace[0], "log") = max_retries[0]

\* C7: with a cap of 0 the call sleeps not at all, issues no GET and raises
\* the generic exception.
C7_ZeroCapGenericError ==
    \A t \in Threads :
        (pc[t] # "idle" /\ max_retries[t] = 0) =>
            /\ pc[t] = "raised"
            /\ ret[t].exc = GenericException
            /\ trace[t] = <<>>
            /\ slept[t] = 0

\* C7 witness: a first call with cap 0 has raised.
C7_Witness ==
    /\ pc[0] = "raised"
    /\ max_retries[0] = 0
    /\ calls = 1

\* Every GET of the call in progress in thread t directly follows a politeness
\* sleep of its own: sleeps and GETs alternate, one sleep ahead while the GET
\* is due.
PolitenessTrace(t) ==
    LET tr == trace[t]
    IN /\ \A i \in 1..Len(tr) : tr[i] = "get" => (i > 1 /\ tr[i - 1] = "psleep")
       /\ Count(tr, "psleep") = Count(tr, "get") + (IF pc[t] = "get" THEN 1 ELSE 0)

\* GET requests issued so far by the call in progress in thread t
Requests(t) == Count(trace[t], "get")
\* ... and by the calls in progress in all threads together
TotalRequests == SumOver([t \in Threads |-> Requests(t)], Threads)
\* No unit has finished: every call in progress began when the run began.
FirstWave == \A p \in Positions : fstate[p] # "finished"
\* The least time that can have passed since the calls in progress began: the
\* threads sleep side by side, so it is the longest any one of them has slept.
Elapsed == MaxOver(slept, Threads)

\* C8 (as stated): every GET directly follows its own politeness sleep, and
\* in any run k requests take at least k times the lower bound of the delay
\* window from the start.  (Stated for the runs up to the first unit's end,
\* where every request made so far is in a trace and every call began at the
\* start.)
C8_Original ==
    /\ \A t \in Threads : PolitenessTrace(t)
    /\ FirstWave => TotalRequests * DelayLo <= Elapsed

\* C8 (amended): every GET, first attempt and retries alike, directly follows
\* its own politeness sleep drawn from the window; so the k requests of one
\* call are separated from the call's start by at least k times the lower
\* bound of the window.  (Workers of the pool sleep side by side: the bound
\* does not hold for the requests of a parallel download taken together.)
C8_SleepBeforeEveryGet ==
    \A t \in Threads :
        /\ PolitenessTrace(t)
        /\ Requests(t) * DelayLo <= slept[t]
        /\ Count(trace[t], "psleep") * DelayLo <= slept[t]

\* C8 witness: a worker has slept for its third request, a retry, while
\* another worker has issued a request too.
C8_Witness ==
    \E t, v \in Workers :
        /\ t # v
        /\ pc[t] = "get"
        /\ Requests(t) = 2
        /\ Count(trace[t], "psleep") = 3
        /\ Requests(v) >= 1

\* C9 (as stated): every failed attempt k in 1..cap is logged and then
\* followed by the retry delay.
C9_Original ==
    \A t \in Threads :
        LET tr == trace[t]
        IN \A i \in 1..Len(tr) :
              tr[i] = "log" =>
                  IF i < Len(tr) THEN tr[i + 1] = "rsleep" ELSE pc[t] = "retry_sleep"

\* C9 (amended): every failed attempt is logged; a failure of an attempt
\* before the last is followed by the retry delay of 1 s, a sleep of its own
\* between the log line and the next politeness sleep; the failure of the last
\* attempt (number max_retries) is followed by no delay: the exception is
\* raised at once.  The time a call has slept is its politeness delays plus
\* 1 s for every retry delay.
C9_RetryDelayBetweenAttempts ==
    \A t \in Threads :
        LET tr == trace[t]
            ps == Count(tr, "psleep")
            rs == Count(tr, "rsleep")
        IN /\ \A i \in 1..Len(tr) : tr[i] = "get" /\ i < Len(tr) => tr[i + 1] = "log"
           /\ \A i \in 1..Len(tr) :
                 tr[i] = "log" =>
                     /\ i > 1 /\ tr[i - 1] = "get"
                     /\ IF i < Len(tr)
                        THEN /\ tr[i + 1] = "rsleep"
                             /\ (i + 1 < Len(tr) => tr[i + 2] = "psleep")
                        ELSE IF Count(tr, "log") = max_retries[t]
                             THEN pc[t] = "raised" /\ ret[t].exc = last_exception[t]
                             ELSE pc[t] = "retry_sleep"
           /\ rs = attempt[t]
           /\ slept[t] >= ps * DelayLo + rs * RetryDelay
           /\ slept[t] <= ps * DelayHi + rs * RetryDelay

\* C9 witness: a call has raised after its last attempt, every earlier failure
\* having been followed by the retry delay.
C9_Witness ==
    /\ pc[0] = "raised"
    /\ max_retries[0] >= 2
    /\ Count(trace[0], "rsleep") = max_retries[0] - 1
    /\ Count(trace[0], "log") = max_retries[0]

\* C10: a chapter page that was fetched (2xx) ends its unit at once, parsed or
\* not: no url gets a second GET after a response, a unit still running has
\* had only failed GETs, each logged, and a unit whose parse failed is finished
\* with None after that single response.
C10_ParseFailureNotRetried ==
    /\ \A p \in 1..Len(chapters) :
          /\ responses[chapters[p]] <= 1
          /\ responses[chapters[p]] = 1 =>
                (fstate[p] = "finished" /\ content[p].error \in {"None", "ValueError"})
          /\ content[p].error = "ValueError" =>
                (responses[chapters[p]] = 1 /\ fstate[p] = "finished" /\ fresult[p] = None)
    /\ \A w \in Workers :
          task[w] # 0 =>
              /\ fstate[task[w]] = "running"
              /\ responses[url[w]] = 0
              /\ Count(trace[w], "get") = Count(trace[w], "log")

\* C10 witness: a unit's page arrived on its first attempt and could not be
\* parsed; the unit is finished while another is still retrying.
C10_Witness ==
    \E p \in 1..Len(chapters) :
        /\ content[p].error = "ValueError"
        /\ \E w \in Workers : task[w] # 0 /\ attempt[w] >= 1

InfoAtHand == dpc \in {"select", "selected", "no_catalog"}

\* The result is populated: no 'error' entry, a non-empty title, a non-empty
\* chapter list and its length as total.
Populated(i) ==
    /\ ~i.has_error
    /\ i.title # <<>>
    /\ i.chapters # <<>>
    /\ i.total_chapters = Len(i.chapters)

\* The result is a failure: an 'error' entry, and everything else empty or 0.
IsFailure(i) ==
    /\ i.has_error
    /\ i.title = <<>> /\ i.author = <<>> /\ i.status = <<>>
    /\ i.total_chapters = 0 /\ i.chapters = <<>>

\* C12 (as stated): what get_info returns is either populated (no 'error',
\* a non-empty title, an author, a status, a non-empty chapter list whose
\* length is total_chapters) or a failure ('error', and title, author, status
\* empty, total_chapters 0, no chapters); never both, never neither.
C12_Original ==
    InfoAtHand => (Populated(info) /\ ~IsFailure(info)) \/ (IsFailure(info) /\ ~Populated(info))

\* C12 witness: get_info has returned a result with no 'error' entry and an
\* empty title, from a page whose title element holds the two marks only.
C12_Witness ==
    /\ InfoAtHand
    /\ ~info.has_error
    /\ info.title = <<>>
    /\ soup.page.title = Elem(<<LeftMark, RightMark>>)

\* C13: get_info never lets an exception out; its result is a failure exactly
\* when the fetch raised (after DefaultMaxRetries failed attempts) or the page
\* has no title element, no author element or no chapter link; a page without
\* the status cell, all else there, gives a populated result with the status
\* "unknown".
C13_FailureExactlyWhen ==
    /\ dpc # "crashed"
    /\ (dpc = "get_info" /\ pc[0] = "raised") =>
          Count(trace[0], "log") = DefaultMaxRetries
    /\ InfoAtHand =>
          LET page == soup.page
          IN /\ info.has_error <=>
                   \/ ~soup.fetched
                   \/ ~page.title.found
                   \/ ~page.author.found
                   \/ page.links = 0
             /\ (~soup.fetched => info.error = "RequestException")
             /\ (~info.has_error /\ ~page.status.found) =>
                   /\ info.status = StatusUnknown
                   /\ info.total_chapters = page.links
                   /\ Len(info.chapters) = page.links

\* C13 witness: a page with title, author and chapters but no status cell was
\* parsed and main goes on to the selection.
C13_Witness ==
    /\ dpc = "select"
    /\ ~soup.page.status.found
    /\ info.status = StatusUnknown
    /\ info.total_chapters = MaxChapters

\* C14: an explicit range is accepted exactly when the two inputs are numbers
\* s, e with 1 <= s <= e <= total, a latest-N request exactly when the input
\* is a number N with 1 <= N <= total; an input that was not accepted starts
\* no download and leaves main in the selection loop.
C14_RangeValidation ==
    (dpc \in {"select", "selected"} /\ input # NoInput) =>
        LET total == info.total_chapters
            ok == dpc = "selected"
        IN /\ input.choice = "2" =>
                 /\ ok <=> \E s, e \in 1..total :
                              s <= e /\ input.nums = <<Str(s), Str(e)>>
                 /\ ok => input.nums = <<Str(start_idx + 1), Str(end_idx)>>
           /\ input.choice = "3" =>
                 /\ ok <=> \E n \in 1..total : input.nums = <<Str(n)>>
                 /\ ok => input.nums = <<Str(end_idx - start_idx)>> /\ end_idx = total
           /\ input.choice = "4" => ~ok
           /\ mainpc = "idle"
           /\ chapters = <<>>
           /\ \A p \in Positions : fstate[p] = "none" /\ responses[p] = 0

\* C14 witness: a range whose end is one past the total was typed and main is
\* still in the selection loop, after a catalog of the largest size.
C14_Witness ==
    /\ dpc = "select"
    /\ info.total_chapters = MaxChapters
    /\ input = [choice |-> "2", nums |-> <<Str(1), Str(MaxChapters + 1)>>]

\* main has ended after the download returned
RunOver == dpc \in {"assembled", "ended"}

\* C15 (as stated): after the download the assembler is invoked exactly when
\* the batch is non-empty; with an empty batch the run ends with the cause
\* "nothing downloaded" reported and no file.
C15_Original ==
    RunOver =>
        /\ (dpc = "assembled") <=> (results # <<>>)
        /\ (sections # <<>>) <=> (results # <<>>)
        /\ results = <<>> => (printed = "nothing downloaded" /\ filename = <<>>)

\* C15 witness: every unit of the download failed, the batch is empty and main
\* has ended having printed no failure.
C15_Witness ==
    /\ dpc = "ended"
    /\ Len(chapters) = MaxChapters
    /\ results = <<>>
    /\ printed = ""
    /\ filename = <<>>

\* The stage of the run
Stage ==
    IF dpc \in {"start", "get_info"} THEN "Idle"
    ELSE IF dpc = "select" THEN "CatalogFetched"
    ELSE IF dpc = "selected" \/ (dpc = "download" /\ mainpc # "returned") THEN "RangeSelected"
    ELSE IF dpc = "download" THEN "Downloaded"
    ELSE IF dpc = "assembled" THEN "Assembled"
    ELSE "Failed"

StageOrder ==
    {<<"Idle", "CatalogFetched">>, <<"Idle", "Failed">>,
     <<"CatalogFetched", "RangeSelected">>, <<"RangeSelected", "Downloaded">>,
     <<"Downloaded", "Assembled">>, <<"Downloaded", "Failed">>}

\* Nothing of a download or an assembly has happened
NothingDownloaded ==
    /\ mainpc = "idle"
    /\ chapters = <<>>
    /\ queue = <<>>
    /\ nthreads = 0
    /\ \A p \in Positions : fstate[p] = "none" /\ responses[p] = 0
    /\ \A w \in Workers : task[w] = 0 /\ trace[w] = <<>>
    /\ sections = <<>>
    /\ filename = <<>>

\* C16: the stage of a run changes only along Idle, CatalogFetched,
\* RangeSelected, Downloaded, then Assembled or Failed (so no stage is entered
\* twice); before a range is accepted, and after a catalog failure, nothing is
\* downloaded or assembled; a download runs only for a catalog without error
\* and an accepted range; the assembler gets its sections only once the
\* download has returned.
C16_StagesInOrder ==
    /\ [][Stage' # Stage => <<Stage, Stage'>> \in StageOrder]_vars
    /\ [](/\ Stage \in {"Idle", "CatalogFetched"} => NothingDownloaded
          /\ dpc \in {"no_catalog", "crashed"} => NothingDownloaded
          /\ dpc = "no_catalog" => info.has_error
          /\ mainpc # "idle" =>
                /\ ~info.has_error
                /\ 0 <= start_idx /\ start_idx < end_idx /\ end_idx <= info.total_chapters
          /\ (sections # <<>> \/ filename # <<>>) =>
                (mainpc = "returned" /\ dpc = "assembled"))

\* C16 witness: the run failed on the catalog (the fetch used all its
\* attempts) with nothing downloaded.
C16_Witness ==
    /\ dpc = "no_catalog"
    /\ info.error = "RequestException"
    /\ NothingDownloaded

\* C17: the file name of an assembled run, by the catalog positions s..e of
\* the chapters that were submitted: for the whole catalog (1..total) it is
\* title_quanben.epub when the status is "complete" and
\* title_di1zhangdaodi{total}zhang_zuixin{last chapter's title}.epub
\* otherwise; for any other range it is title_di{s}zhangdaodi{e}zhang.epub.
C17_FilenameByRange ==
    dpc = "assembled" =>
        LET s == chapters[1]
            e == chapters[Len(chapters)]
            total == info.total_chapters
        IN filename =
              IF s = 1 /\ e = total
              THEN IF info.status = StatusComplete
                   THEN info.title \o <<"_", "quan", "ben", ".", "e", "p", "u", "b">>
                   ELSE info.title \o <<"_", "di", "1", "zhang", "dao", "di">> \o Str(total)
                           \o <<"zhang", "_", "zui", "xin">> \o ChapterTitle(total)
                           \o <<".", "e", "p", "u", "b">>
              ELSE info.title \o <<"_", "di">> \o Str(s) \o <<"zhang", "dao", "di">>
                      \o Str(e) \o <<"zhang", ".", "e", "p", "u", "b">>

\* C17 witness: a run assembled the last chapter alone of a catalog of the
\* largest size, the status being "complete".
C17_Witness ==
    /\ dpc = "assembled"
    /\ info.total_chapters = MaxChapters
    /\ chapters = <<MaxChapters>>
    /\ info.status = StatusComplete
    /\ filename # <<>>

\* The two runs agree on title, status, start index, end index and total
AgreeOnFive ==
    /\ runs[1].title = runs[2].title
    /\ runs[1].status = runs[2].status
    /\ runs[1].start_idx = runs[2].start_idx
    /\ runs[1].end_idx = runs[2].end_idx
    /\ runs[1].total_chapters = runs[2].total_chapters

\* The first run selected its whole catalog and its status is not "complete"
NamesLastChapter ==
    /\ runs[1].start_idx = 0
    /\ runs[1].end_idx = runs[1].total_chapters
    /\ runs[1].status # StatusComplete

\* C18 (as stated): two runs that agree on title, status, start index, end
\* index and total count have the same file name, whatever else differs.
C18_Original ==
    (names # <<>> /\ AgreeOnFive) => names[1] = names[2]

\* C18 (amended): the file name is a function of title, status, start index,
\* end index, total count and the last chapter's title.  Two runs that agree
\* on the first five have the same name when they also agree on the last
\* chapter's title, and also when the selection is not the whole catalog or
\* the status is "complete"; for the whole catalog of a work that is not
\* complete, different last chapter titles give different names.
C18_NameFunctionOfSix ==
    (names # <<>> /\ AgreeOnFive) =>
        /\ runs[1].last_chapter = runs[2].last_chapter => names[1] = names[2]
        /\ ~NamesLastChapter => names[1] = names[2]
        /\ (NamesLastChapter /\ runs[1].last_chapter # runs[2].last_chapter) =>
              names[1] # names[2]

\* C18 witness: two runs that agree on the five values and differ in the last
\* chapter's title, for a selection that starts at the first chapter and is
\* not the whole catalog, have got the same name.
C18_Witness ==
    /\ names # <<>>
    /\ AgreeOnFive
    /\ runs[1].last_chapter # runs[2].last_chapter
    /\ runs[1].start_idx = 0
    /\ runs[1].end_idx < runs[1].total_chapters
    /\ runs[1].status = StatusOngoing
    /\ names[1] = names[2]

\* C19: cleaning what _clean_content returned changes nothing.
C19_CleanIdempotent ==
    recleaned # Unset => recleaned = cleaned

\* C19 witness: a text of the greatest length with a blank line, a line to
\* trim and an ad line was cleaned twice, and the first cleaning changed it.
C19_Witness ==
    /\ recleaned # Unset
    /\ raw = <<"\n", " ", "a", "\n", "-", "-">>
    /\ cleaned = <<"a", "\n", "-", "-">>

\* The positions of the newlines of s
NewlinesOf(s) == {i \in 1..Len(s) : s[i] = "\n"}
\* The position of the k-th newline of s; 0 before the first line, Len(s) + 1
\* after the last
BreakOf(s, k) ==
    IF k = 0 THEN 0
    ELSE IF k > Cardinality(NewlinesOf(s)) THEN Len(s) + 1
    ELSE CHOOSE i \in NewlinesOf(s) : Cardinality({j \in NewlinesOf(s) : j <= i}) = k
\* The k-th line of s
LineOf(s, k) == SubSeq(s, BreakOf(s, k - 1) + 1, BreakOf(s, k) - 1)
LineCount(s) == Cardinality(NewlinesOf(s)) + 1
\* A line without the whitespace at its two ends
Trimmed(line) ==
    LET ink == {i \in 1..Len(line) : line[i] \notin {" ", "\n"}}
    IN IF ink = {} THEN <<>>
       ELSE SubSeq(line, CHOOSE i \in ink : \A j \in ink : i <= j,
                         CHOOSE i \in ink : \A j \in ink : j <= i)
\* A line holds one of the configured markers
HasMarker(line) ==
    \E i, j \in 1..Len(line) :
        \E k \in 1..Len(ad_keywords) : i <= j /\ SubSeq(line, i, j) = ad_keywords[k]
\* The lines of s that survive: trimmed, non-empty, without marker, in order
Survivors(s) ==
    SelectSeq([k \in 1..LineCount(s) |-> Trimmed(LineOf(s, k))],
              LAMBDA line : line # <<>> /\ ~HasMarker(line))

\* C20: _clean_content(raw) is exactly the surviving lines of raw (trimmed,
\* non-empty after trimming, free of every marker), in their order, with one
\* newline between two of them and none elsewhere; with no surviving line it
\* is the empty string.
C20_CleanIsSurvivingLines ==
    cleaned # Unset =>
        LET want == Survivors(raw)
        IN IF want = <<>> THEN cleaned = <<>>
           ELSE /\ LineCount(cleaned) = Len(want)
                /\ \A k \in 1..Len(want) : LineOf(cleaned, k) = want[k]

\* C20 witness: a text of an ad line and a line to keep was cleaned to the
\* line to keep.
C20_Witness ==
    /\ cleaned = <<"a">>
    /\ LineCount(raw) = 2
    /\ HasMarker(LineOf(raw, 1))
    /\ LineOf(raw, 2) = <<"a">>

\* ------------------------------------------------- serial download (C21)
\* The serial download of the test: for chapter in chapters, call
\* get_chapter_content and keep the chapter when content['error'] is falsy.
\* outcome[k] is what get_chapter_content returns for the k-th chapter; the
\* entries are compared by title and content.
RECURSIVE SerialFrom(_, _, _)
SerialFrom(k, chs, outcome) ==
    IF k > Len(chs)
    THEN <<>>
    ELSE (IF outcome[k].error = "None"
          THEN <<[title |-> outcome[k].title, content |-> outcome[k].content]>>
          ELSE <<>>) \o SerialFrom(k + 1, chs, outcome)

SerialDownload(chs, outcome) == SerialFrom(1, chs, outcome)

\* C21: once download_chapters_parallel has returned, for every max_workers
\* of the run, the batch is the one the serial download builds from the same
\* per-chapter outcomes: the same number of entries, with the same titles
\* and contents, in the same order.
C21_ParallelEqualsSerial ==
    mainpc = "returned" =>
        LET serial == SerialDownload(chapters, content)
        IN  /\ Len(results) = Len(serial)
            /\ \A i \in 1..Len(serial) :
                   /\ results[i].title = serial[i].title
                   /\ results[i].content = serial[i].content

\* C21 witness: a returned run on more than one thread in which the first
\* chapter failed and a later one succeeded, so that the serial batch is
\* neither empty nor the whole list.
C21_Witness ==
    /\ mainpc = "returned"
    /\ max_workers >= 2
    /\ nthreads >= 2
    /\ Len(chapters) = MaxChapters
    /\ content[1].error # "None"
    /\ content[MaxChapters].error = "None"
    /\ SerialDownload(chapters, content) # <<>>
    /\ Len(SerialDownload(chapters, content)) < Len(chapters)

\* The catalog positions (first, last) that an accepted input names: the whole
\* catalog, the range typed, or the latest N.
Selection(inp, total) ==
    IF inp.choice = "1" THEN <<1, total>>
    ELSE IF inp.choice = "2" THEN <<ParseInt(inp.nums[1]), ParseInt(inp.nums[2])>>
    ELSE <<total - ParseInt(inp.nums[1]) + 1, total>>

\* the catalog entries at positions a..b, in catalog order
CatalogRange(a, b) == [i \in 1..(b - a + 1) |-> info.chapters[a + i - 1]]

\* the chapters whose catalog position is outside start_idx+1..end_idx
Unselected == {u \in 1..MaxChapters : u <= start_idx \/ u > end_idx}

\* C22: the list handed to download_chapters_parallel is the accepted
\* selection in catalog order: positions 1..total for the whole catalog,
\* s..e (e-s+1 chapters) for the range [s,e], total-N+1..total for latest-N;
\* every chapter of the list is submitted once, in list order, no chapter
\* outside the selection is ever requested, and the sections handed to the
\* assembler are chapters of the selection in catalog order.
C22_SelectionSubmittedExactly ==
    /\ [][/\ (dpc = "selected" /\ dpc' = "download") =>
               LET sel == Selection(input, info.total_chapters)
               IN /\ chapters' = CatalogRange(sel[1], sel[2])
                  /\ Len(chapters') = sel[2] - sel[1] + 1
                  /\ input.choice = "1" =>
                         chapters' = [i \in 1..info.total_chapters |-> i]
          /\ \A p \in Positions :
               /\ (fstate[p] = "none" /\ fstate'[p] # "none") =>
                      /\ mainpc = "submit"
                      /\ p = idx + 1
                      /\ p <= Len(chapters)
                      /\ fstate'[p] = "pending"
                      /\ queue' = Append(queue, p)
               /\ (fstate[p] # "pending" /\ fstate'[p] = "pending") =>
                      fstate[p] = "none"
               /\ (p \in Unselected /\ dpc # "start") =>
                      responses'[p] = responses[p]]_vars
    /\ [](dpc \in {"download", "assembled", "ended"} =>
            /\ chapters = CatalogRange(start_idx + 1, end_idx)
            /\ Len(chapters) = end_idx - start_idx
            /\ \A p, q \in 1..Len(chapters) : p < q => chapters[p] < chapters[q]
            /\ \A p \in Positions :
                  /\ p > Len(chapters) => fstate[p] = "none"
                  /\ (p <= Len(chapters) /\ mainpc # "submit") => fstate[p] # "none"
            /\ \A w \in Workers :
                  task[w] # 0 => /\ url[w] = chapters[task[w]]
                                 /\ url[w] \notin Unselected
            /\ \A u \in Unselected : responses[u] = 0
            /\ dpc = "assembled" =>
                  /\ sections = SerialDownload(chapters, content)
                  /\ \A i \in 1..Len(sections) :
                        sections[i].title \in (start_idx + 1)..end_idx
                  /\ \A i, j \in 1..Len(sections) :
                        i < j => sections[i].title < sections[j].title)

\* C22 witness: a selection that leaves out the first chapter of the largest
\* catalog (the range [total,total] or latest-1) was downloaded and assembled.
C22_Witness ==
    /\ dpc = "assembled"
    /\ info.total_chapters = MaxChapters
    /\ start_idx = MaxChapters - 1
    /\ end_idx = MaxChapters
    /\ chapters = <<MaxChapters>>
    /\ sections # <<>>
    /\ responses[MaxChapters] > 0

\* what thread t holds of the call it is running
Frame(t) ==
    <<task[t], pc[t], url[t], max_retries[t], attempt[t], last_exception[t],
      ret[t], trace[t], slept[t]>>

\* the future of the unit submitted for position p
Future(p) == <<fstate[p], content[p], fresult[p]>>

\* C23: a step of a unit of work writes the frame of its own thread and the
\* future of its own chapter and nothing of another unit or of the caller;
\* no two units run the same chapter, a future is set once, by the one unit
\* that ran it; the results collection is written by the calling thread
\* alone, one appended entry per step while no unit moves, existing entries
\* untouched, and it holds at most one entry per unit.
C23_NoWriteRaces ==
    /\ [][LET movers == {w \in Workers : Frame(w)' # Frame(w)}
          IN /\ Cardinality(movers) <= 1
             /\ movers # {} =>
                   /\ results' = results
                   /\ chapters' = chapters
                   /\ idx' = idx
                   /\ mainpc' = mainpc
                   /\ Frame(0)' = Frame(0)
             /\ results' # results =>
                   /\ movers = {}
                   /\ mainpc = "collect"
                   /\ idx' = idx + 1
                   /\ Len(results') = Len(results) + 1
                   /\ SubSeq(results', 1, Len(results)) = results
                   /\ results'[Len(results')].title = chapters[idx + 1]
                   /\ fstate[idx + 1] = "finished"
             /\ \A p \in Positions :
                   /\ (content'[p] # content[p] \/ fresult'[p] # fresult[p]) =>
                         /\ fstate[p] = "running"
                         /\ fstate'[p] = "finished"
                         /\ \E w \in Workers : task[w] = p /\ movers = {w}
                         /\ \A q \in Positions \ {p} : Future(q)' = Future(q)
                   /\ fstate[p] = "finished" => Future(p)' = Future(p)]_vars
    /\ [](/\ \A w, v \in Workers : (w # v /\ task[w] # 0) => task[w] # task[v]
          /\ \A p \in Positions : fstate[p] = "running" <=> \E w \in Workers : task[w] = p
          /\ \A p \in 1..Len(chapters) :
                Cardinality({i \in 1..Len(results) : results[i].title = chapters[p]}) <= 1
          /\ Len(results) <= (IF mainpc = "submit" THEN 0 ELSE idx))

\* C23 witness: the calling thread has recorded the result of the first unit
\* while the unit of a later chapter, on another thread, is in the middle of
\* its request.
C23_Witness ==
    /\ mainpc = "collect"
    /\ Len(results) = 1
    /\ idx = 1
    /\ task[2] = MaxChapters
    /\ fstate[MaxChapters] = "running"
    /\ pc[2] = "get"
====
